---- MODULE Spec2Model ----
(***************************************************************************)
(* Vendoza: audit of a local file tree against a manifest of remote        *)
(* baselines plus accepted patches, and sync of the tree from the          *)
(* manifest.  The model follows src/unnamed/part_001 (audit.ts, the later  *)
(* revision with sync) and src/index.ts.                                   *)
(*                                                                         *)
(* Texts.  A text is [lines, eol]: its lines without terminators, and      *)
(* whether the text ends with "\n".  A text without final newline never    *)
(* ends with an empty line (that would be the shorter text with eol).      *)
(*                                                                         *)
(* Hunk lines.  The JavaScript string op + content is the pair             *)
(* <<op, content>>, op one of "+", "-", " " and "\\" (the marker           *)
(* "\ No newline at end of file").                                         *)
(*                                                                         *)
(* Hunks.  A hunk object is a record of its properties plus `keys`, the    *)
(* insertion order of its own properties, which JSON.stringify follows.    *)
(***************************************************************************)
EXTENDS Integers, Sequences, FiniteSets, TLC

VARIABLES
    \* listCompare on its own
    left, right, lc,
    \* compareDeltas on its own
    given, exp, cmp,
    \* diff / reversePatch / applyPatch on their own
    txtA, txtB, dres,
    \* reversePatch on its own
    patches, reversedPatches,
    \* fetchFiles on its own
    targetPath, tree, walk,
    \* one run of the program (index.ts: audit or sync)
    mode, writePatches, manifest, disk0, disk,
    pc, files, extraFilesFound, missingFiles, tasks, order,
    console, patchesFile, thrown, exitCode

recVars  == <<left, right, lc>>
cmpVars  == <<given, exp, cmp>>
diffVars == <<txtA, txtB, dres, patches, reversedPatches>>
runVars  == <<mode, writePatches, manifest, disk0, disk, pc, files,
              extraFilesFound, missingFiles, tasks, order, console,
              patchesFile, thrown, exitCode>>
walkVars == <<targetPath, tree, walk>>
vars     == <<recVars, cmpVars, diffVars, walkVars, runVars>>

Null == "null"

----------------------------------------------------------------------------
(* Bounds *)

\* longest text, in lines, of the exhaustive part of the text pairs
MaxLines == 2
\* longest sequence handed to listCompare
MaxLen == 3
\* longest hunk sequence handed to compareDeltas
MaxHunks == 2
\* number of paths a run knows
NumPaths == 2

\* most entries (files, directories, symbolic links) of a directory tree
MaxEntries == 4

\* context lines structuredPatch puts around a change when no option is given
Context == 4

----------------------------------------------------------------------------
(* Sequences *)

Max(x, y) == IF x >= y THEN x ELSE y
Min(x, y) == IF x <= y THEN x ELSE y

Range(s) == {s[i] : i \in 1..Len(s)}

Front(s) == SubSeq(s, 1, Len(s) - 1)
Last(s)  == s[Len(s)]

\* Array.prototype.splice: the start index, counted from 0, is clamped to
\* the array (a negative one counts from the end), as JavaScript does
SpliceStart(s, pos) ==
    IF pos < 0 THEN Max(Len(s) + pos, 0) ELSE Min(pos, Len(s))
\* splice(pos, 0, x)
SpliceIn(s, pos, x) ==
    LET p == SpliceStart(s, pos)
    IN  SubSeq(s, 1, p) \o <<x>> \o SubSeq(s, p + 1, Len(s))
\* splice(pos, 1)
SpliceOut(s, pos) ==
    LET p == SpliceStart(s, pos)
    IN  SubSeq(s, 1, p) \o SubSeq(s, p + 2, Len(s))

\* the sequences over S of length at most n
SeqsUpTo(S, n) == UNION {[1..k -> S] : k \in 0..n}

----------------------------------------------------------------------------
(* Texts *)

EmptyText == [lines |-> <<>>, eol |-> FALSE]

IsText(t) == IF t.lines = <<>> THEN ~t.eol ELSE t.eol \/ Last(t.lines) # ""

\* the line contents of the exhaustive part: an empty line and two others
Alphabet == {"", "x", "y"}

SmallTexts ==
    {t \in [lines : SeqsUpTo(Alphabet, MaxLines), eol : BOOLEAN] : IsText(t)}

\* texts long enough for a diff of two hunks: a change at either end of a
\* run of unchanged lines longer than twice the context
Filler == [i \in 1..(2 * Context + 1) |-> "c"]
LongTexts ==
    {[lines |-> h \o Filler \o t, eol |-> e] :
        h \in {<<>>, <<"x">>}, t \in {<<"x">>, <<"y">>}, e \in BOOLEAN}

Texts == SmallTexts \cup LongTexts

\* diffLines' tokens (lineDiff.tokenize): each line with its terminator; only
\* the last line of a text can be without one
Tokenize(t) ==
    [i \in 1..Len(t.lines) |-> <<t.lines[i], i < Len(t.lines) \/ t.eol>>]

\* /\n$/.test(str)
EOFNewline(t) == t.eol
\* str.length > 0
NonEmpty(t) == t # EmptyText

----------------------------------------------------------------------------
(* diff: structuredPatch("", "", a, b, "", "").hunks *)

\* T[i][j]: the length of a longest common subsequence of a[i..] and b[j..].
\* The table is filled from its last row and each row from its last column;
\* acc holds what is filled so far.
RECURSIVE LcsRow(_, _, _, _, _)
LcsRow(x, tb, below, j, acc) ==
    IF j = 0 THEN acc
    ELSE LET next == <<IF x = tb[j] THEN below[j + 1] + 1
                                   ELSE Max(below[j], acc[1])>> \o acc
         IN  IF next[1] >= 0 THEN LcsRow(x, tb, below, j - 1, next) ELSE next

RECURSIVE LcsRows(_, _, _, _)
LcsRows(ta, tb, i, acc) ==
    IF i = 0 THEN acc
    ELSE LET next == <<LcsRow(ta[i], tb, acc[1], Len(tb), <<0>>)>> \o acc
         IN  IF Len(next[1]) > 0 THEN LcsRows(ta, tb, i - 1, next) ELSE next

LcsTable(ta, tb) ==
    LcsRows(ta, tb, Len(ta), <<[j \in 1..(Len(tb) + 1) |-> 0]>>)

\* the edit script of a shortest line diff, one entry per token: equal
\* tokens are kept, and between them removals come before additions
RECURSIVE EditScript(_, _, _, _, _)
EditScript(ta, tb, T, i, j) ==
    IF i > Len(ta) THEN [k \in 1..(Len(tb) - j + 1) |-> <<"+", tb[j + k - 1][1]>>]
    ELSE IF j > Len(tb) THEN [k \in 1..(Len(ta) - i + 1) |-> <<"-", ta[i + k - 1][1]>>]
    ELSE IF ta[i] = tb[j]
        THEN <<<<" ", ta[i][1]>>>> \o EditScript(ta, tb, T, i + 1, j + 1)
    ELSE IF T[i + 1][j] >= T[i][j + 1]
        THEN <<<<"-", ta[i][1]>>>> \o EditScript(ta, tb, T, i + 1, j)
    ELSE <<<<"+", tb[j][1]>>>> \o EditScript(ta, tb, T, i, j + 1)

\* the change objects of diffLines: runs of the edit script with one
\* operation, each with the lines of its value
RECURSIVE Components(_)
Components(script) ==
    IF script = <<>> THEN <<>>
    ELSE LET rest == Components(Tail(script))
             op   == Head(script)[1]
             line == Head(script)[2]
         IN  IF rest # <<>> /\ rest[1].op = op
             THEN <<[op |-> op, lines |-> <<line>> \o rest[1].lines]>> \o Tail(rest)
             ELSE <<[op |-> op, lines |-> <<line>>]>> \o rest

diffLines(a, b) ==
    LET ta == Tokenize(a)
        tb == Tokenize(b)
        T  == LcsTable(ta, tb)
    IN  IF Len(T) > 0 THEN Components(EditScript(ta, tb, T, 1, 1)) ELSE <<>>

\* the property order of a hunk object structuredPatch builds
HunkKeys == <<"oldStart", "oldLines", "newStart", "newLines", "lines">>

NoNewline == <<"\\", " No newline at end of file">>

contextLines(lines) == [k \in 1..Len(lines) |-> <<" ", lines[k]>>]

\* lines.slice(-n) and lines.slice(0, n)
SliceLast(lines, n)  == SubSeq(lines, Max(Len(lines) - n, 0) + 1, Len(lines))
SliceFirst(lines, n) == SubSeq(lines, 1, Min(n, Len(lines)))

\* the loop of structuredPatch over the change objects d (the empty change
\* appended "to make cleanup easier" included); k is i + 1
RECURSIVE PatchLoop(_, _, _, _, _)
PatchLoop(d, k, st, oldStr, newStr) ==
    IF k > Len(d) THEN st.hunks
    ELSE
    LET current == d[k]
        lines   == current.lines
    IN
    IF current.op # " " THEN
        LET fresh == st.oldRangeStart = 0
            prevCtx == IF fresh /\ k > 1 /\ Context > 0
                       THEN contextLines(SliceLast(d[k - 1].lines, Context))
                       ELSE <<>>
            range0 == IF fresh THEN prevCtx ELSE st.curRange
            ors == IF fresh THEN st.oldLine - Len(prevCtx) ELSE st.oldRangeStart
            nrs == IF fresh THEN st.newLine - Len(prevCtx) ELSE st.newRangeStart
        IN  PatchLoop(d, k + 1,
                [st EXCEPT !.oldRangeStart = ors, !.newRangeStart = nrs,
                    !.curRange = range0 \o
                        [n \in 1..Len(lines) |-> <<current.op, lines[n]>>],
                    !.newLine = IF current.op = "+" THEN @ + Len(lines) ELSE @,
                    !.oldLine = IF current.op = "-" THEN @ + Len(lines) ELSE @],
                oldStr, newStr)
    ELSE
        LET moved == [st EXCEPT !.oldLine = @ + Len(lines), !.newLine = @ + Len(lines)]
        IN
        IF st.oldRangeStart = 0 THEN PatchLoop(d, k + 1, moved, oldStr, newStr)
        ELSE IF Len(lines) <= Context * 2 /\ k < Len(d) - 1
        THEN \* overlapping
             PatchLoop(d, k + 1,
                [moved EXCEPT !.curRange = @ \o contextLines(lines)],
                oldStr, newStr)
        ELSE \* end the range and output
            LET contextSize == Min(Len(lines), Context)
                range1 == st.curRange \o contextLines(SliceFirst(lines, contextSize))
                oldLines == st.oldLine - st.oldRangeStart + contextSize
                newLines == st.newLine - st.newRangeStart + contextSize
                atEOF == k >= Len(d) - 1 /\ Len(lines) <= Context
                oldEOFNewline == EOFNewline(oldStr)
                newEOFNewline == EOFNewline(newStr)
                noNlBeforeAdds == Len(lines) = 0 /\ Len(range1) > oldLines
                range2 == IF atEOF /\ ~oldEOFNewline /\ noNlBeforeAdds /\ NonEmpty(oldStr)
                          THEN SpliceIn(range1, oldLines, NoNewline)
                          ELSE range1
                range3 == IF atEOF /\ ((~oldEOFNewline /\ ~noNlBeforeAdds) \/ ~newEOFNewline)
                          THEN Append(range2, NoNewline)
                          ELSE range2
                hunk == [oldStart |-> st.oldRangeStart, oldLines |-> oldLines,
                         newStart |-> st.newRangeStart, newLines |-> newLines,
                         lines |-> range3, linedelimiters |-> <<>>,
                         keys |-> HunkKeys]
            IN  PatchLoop(d, k + 1,
                    [moved EXCEPT !.hunks = Append(@, hunk), !.oldRangeStart = 0,
                                  !.newRangeStart = 0, !.curRange = <<>>],
                    oldStr, newStr)

structuredPatch(oldStr, newStr) ==
    PatchLoop(Append(diffLines(oldStr, newStr), [op |-> " ", lines |-> <<>>]), 1,
              [hunks |-> <<>>, oldRangeStart |-> 0, newRangeStart |-> 0,
               curRange |-> <<>>, oldLine |-> 1, newLine |-> 1],
              oldStr, newStr)

diff(a, b) == structuredPatch(a, b)

----------------------------------------------------------------------------
(* reversePatch and applyPatch *)

\* the map over the lines with the branch for "-" left out
reverseLineAddsOnly(line) ==
    IF line[1] = "+" THEN <<"-", line[2]>>
    ELSE line

\* the callback of hunk.lines.map: "+" becomes "-", "-" becomes "+", any
\* other line is returned as it is
reverseLine(line) ==
    IF line[1] = "+" THEN <<"-", line[2]>>
    ELSE IF line[1] = "-" THEN <<"+", line[2]>>
    ELSE line

reversePatch(hunks) ==
    [i \in 1..Len(hunks) |->
        [oldStart |-> hunks[i].newStart,
         oldLines |-> hunks[i].newLines,
         newStart |-> hunks[i].oldStart,
         newLines |-> hunks[i].oldLines,
         lines    |-> [j \in 1..Len(hunks[i].lines) |-> reverseLine(hunks[i].lines[j])],
         linedelimiters |-> [j \in 1..Len(hunks[i].lines) |-> "\n"],
         keys     |-> HunkKeys \o <<"linedelimiters">>]]

\* source.split(/\r\n|[\n\v\f\r\x85]/) and the delimiters matched
SplitLines(t) ==
    IF t.eol THEN Append(t.lines, "")
    ELSE IF t.lines = <<>> THEN <<"">> ELSE t.lines
SplitDelimiters(t) == [k \in 1..(Len(SplitLines(t)) - 1) |-> "\n"]

\* hunkFits(hunk, toPos): every context and removed line of the hunk is the
\* line of the text at its place (lines[toPos] is undefined outside the text)
RECURSIVE hunkFits(_, _, _, _)
hunkFits(hlines, j, toPos, lines) ==
    IF j > Len(hlines) THEN TRUE
    ELSE IF hlines[j][1] \in {" ", "-"}
        THEN /\ toPos >= 0 /\ toPos < Len(lines)
             /\ lines[toPos + 1] = hlines[j][2]
             /\ hunkFits(hlines, j + 1, toPos + 1, lines)
    ELSE hunkFits(hlines, j + 1, toPos, lines)

\* the offsets distanceIterator(start, minLine, maxLine) yields after 0:
\* +1, -1, +2, -2, ... while start + k <= maxLine, resp. minLine <= start - k;
\* the first at which the hunk fits as <<offset>>, or <<>> (undefined) when
\* both sides are exhausted
RECURSIVE FirstFit(_, _, _, _, _, _)
FirstFit(hunk, toPos, minLine, maxLine, k, lines) ==
    LET fwd == toPos + k <= maxLine
        bwd == minLine <= toPos - k
    IN  IF ~fwd /\ ~bwd THEN <<>>
        ELSE IF fwd /\ hunkFits(hunk.lines, 1, toPos + k, lines) THEN <<k>>
        ELSE IF bwd /\ hunkFits(hunk.lines, 1, toPos - k, lines) THEN <<0 - k>>
        ELSE FirstFit(hunk, toPos, minLine, maxLine, k + 1, lines)

\* "Search best fit offsets for each hunk based on the previous ones": the
\* sequence of hunk.offset, with ok false when a hunk fits nowhere
RECURSIVE FitOffsets(_, _, _, _, _)
FitOffsets(hunks, i, minLine, offset, lines) ==
    IF i > Len(hunks) THEN [ok |-> TRUE, offsets |-> <<>>]
    ELSE
    LET hunk    == hunks[i]
        maxLine == Len(lines) - hunk.oldLines
        toPos   == offset + hunk.oldStart - 1
        localOffset == IF hunkFits(hunk.lines, 1, toPos, lines) THEN <<0>>
                       ELSE FirstFit(hunk, toPos, minLine, maxLine, 1, lines)
    IN  IF localOffset = <<>> THEN [ok |-> FALSE, offsets |-> <<>>]
        ELSE LET newOffset == offset + localOffset[1]
                 rest == FitOffsets(hunks, i + 1,
                             newOffset + hunk.oldStart + hunk.oldLines,
                             newOffset, lines)
             IN  [ok |-> rest.ok, offsets |-> <<newOffset>> \o rest.offsets]

\* the lines of one hunk applied from toPos on
RECURSIVE ApplyLines(_, _, _, _)
ApplyLines(hunk, j, toPos, st) ==
    IF j > Len(hunk.lines) THEN st
    ELSE
    LET operation == hunk.lines[j][1]
        content   == hunk.lines[j][2]
        delimiter == hunk.linedelimiters[j]
        previousOperation == IF j > 1 THEN hunk.lines[j - 1][1] ELSE Null
    IN  IF operation = " " THEN ApplyLines(hunk, j + 1, toPos + 1, st)
        ELSE IF operation = "-" THEN
            ApplyLines(hunk, j + 1, toPos,
                [st EXCEPT !.lines = SpliceOut(@, toPos),
                           !.delimiters = SpliceOut(@, toPos)])
        ELSE IF operation = "+" THEN
            ApplyLines(hunk, j + 1, toPos + 1,
                [st EXCEPT !.lines = SpliceIn(@, toPos, content),
                           !.delimiters = SpliceIn(@, toPos, delimiter)])
        ELSE IF operation = "\\" THEN
            ApplyLines(hunk, j + 1, toPos,
                [st EXCEPT !.removeEOFNL = @ \/ previousOperation = "+",
                           !.addEOFNL = @ \/ previousOperation = "-"])
        ELSE ApplyLines(hunk, j + 1, toPos, st)

RECURSIVE ApplyHunks(_, _, _, _, _)
ApplyHunks(hunks, offsets, i, diffOffset, st) ==
    IF i > Len(hunks) THEN st
    ELSE ApplyHunks(hunks, offsets, i + 1,
            diffOffset + hunks[i].newLines - hunks[i].oldLines,
            ApplyLines(hunks[i], 1, hunks[i].oldStart + offsets[i] + diffOffset - 1, st))

\* while (!lines[lines.length - 1]) { lines.pop(); delimiters.pop(); }
\* with no line left the test stays true and the loop never ends (hang)
RECURSIVE PopEmpty(_)
PopEmpty(st) ==
    IF st.lines = <<>> THEN [st EXCEPT !.hang = TRUE]
    ELSE IF Last(st.lines) = ""
        THEN PopEmpty([st EXCEPT !.lines = Front(@),
                                 !.delimiters = IF @ = <<>> THEN @ ELSE Front(@)])
    ELSE st

\* lines[k] = lines[k] + delimiters[k] for all but the last line, then
\* lines.join(''): a text, unless a delimiter is missing (undefined)
JoinLines(lines, delimiters) ==
    IF lines = <<>> THEN [kind |-> "text", text |-> EmptyText]
    ELSE IF Len(delimiters) < Len(lines) - 1
        THEN [kind |-> "garbled", text |-> EmptyText]
    ELSE IF Last(lines) = ""
        THEN [kind |-> "text", text |-> [lines |-> Front(lines), eol |-> Len(lines) > 1]]
    ELSE [kind |-> "text", text |-> [lines |-> lines, eol |-> FALSE]]

\* applyPatch(source, {hunks}) with the default options (fuzzFactor 0):
\* the patched text; false when a hunk fits nowhere
applyPatch(source, hunks) ==
    LET lines   == SplitLines(source)
        offsets == FitOffsets(hunks, 1, 0, 0, lines)
    IN  IF ~offsets.ok THEN [kind |-> "false", text |-> EmptyText]
        ELSE
        LET st == ApplyHunks(hunks, offsets.offsets, 1, 0,
                      [lines |-> lines, delimiters |-> SplitDelimiters(source),
                       removeEOFNL |-> FALSE, addEOFNL |-> FALSE,
                       hang |-> FALSE])
            fin == IF st.removeEOFNL THEN PopEmpty(st)
                   ELSE IF st.addEOFNL
                       THEN [st EXCEPT !.lines = Append(@, ""),
                                       !.delimiters = Append(@, "\n")]
                   ELSE st
        IN  IF fin.hang THEN [kind |-> "hang", text |-> EmptyText]
            ELSE JoinLines(fin.lines, fin.delimiters)

----------------------------------------------------------------------------
(* listCompare *)

\* new Set(xs).has(x)
SetHas(xs, x) == x \in Range(xs)

\* listCompare with rightDiff filtered against the set of right
listCompareRightSet(l, r) ==
    LET inRight(x)  == SetHas(r, x)
        notRight(x) == ~SetHas(r, x)
    IN  [match     |-> SelectSeq(l, inRight),
         leftDiff  |-> SelectSeq(l, notRight),
         rightDiff |-> SelectSeq(r, notRight),
         left      |-> l,
         right     |-> r]

\* listCompare(left, right); the arrays are copied before they are filtered,
\* so the result also says what the caller's arrays hold afterwards
listCompare(l, r) ==
    LET inRight(x)  == SetHas(r, x)
        notRight(x) == ~SetHas(r, x)
        notLeft(x)  == ~SetHas(l, x)
    IN  [match     |-> SelectSeq(l, inRight),
         leftDiff  |-> SelectSeq(l, notRight),
         rightDiff |-> SelectSeq(r, notLeft),
         left      |-> l,
         right     |-> r]

----------------------------------------------------------------------------
(* stringifyHunk, compareDeltas, checkFile *)

\* the value of property k of hunk object h
Prop(h, k) ==
    CASE k = "oldStart" -> <<h.oldStart>>
      [] k = "oldLines" -> <<h.oldLines>>
      [] k = "newStart" -> <<h.newStart>>
      [] k = "newLines" -> <<h.newLines>>
      [] k = "lines"    -> h.lines
      [] k = "linedelimiters" -> h.linedelimiters

\* JSON.stringify(hunk): the own properties in insertion order, each with
\* its value
stringifyHunk(hunk) ==
    [i \in 1..Len(hunk.keys) |-> <<hunk.keys[i], Prop(hunk, hunk.keys[i])>>]

\* JSON.parse of a serialised hunk: the properties in the order of the text
parseHunk(str) ==
    LET val(k, d) == IF \E i \in 1..Len(str) : str[i][1] = k
                     THEN (CHOOSE pr \in Range(str) : pr[1] = k)[2] ELSE d
    IN  [oldStart |-> val("oldStart", <<0>>)[1],
         oldLines |-> val("oldLines", <<0>>)[1],
         newStart |-> val("newStart", <<0>>)[1],
         newLines |-> val("newLines", <<0>>)[1],
         lines    |-> val("lines", <<>>),
         linedelimiters |-> val("linedelimiters", <<>>),
         keys     |-> [i \in 1..Len(str) |-> str[i][1]]]

NoError == [extraHunks |-> <<>>, missingHunks |-> <<>>]

\* compareDeltas(fileName, given, exp): isNull for the null result, else the
\* divergence {error, given, fileName}; the error text is built from the
\* unexpected and the missing hunks
compareDeltas(fileName, gv, ex) ==
    LET c == listCompare([i \in 1..Len(gv) |-> stringifyHunk(gv[i])],
                         [i \in 1..Len(ex) |-> stringifyHunk(ex[i])])
        extraHunks   == c.leftDiff
        missingHunks == c.rightDiff
    IN  IF Len(extraHunks) = 0 /\ Len(missingHunks) = 0
        THEN [isNull |-> TRUE, error |-> NoError, given |-> <<>>, fileName |-> ""]
        ELSE [isNull |-> FALSE,
              error |-> [extraHunks |-> extraHunks, missingHunks |-> missingHunks],
              given |-> gv, fileName |-> fileName]

\* checkFile with the arguments of diff exchanged
checkFileSwapped(fileName, contents, item, sourced) ==
    compareDeltas(fileName, diff(sourced, contents), item.patches)

\* checkFile after readSource has returned sourced
checkFile(fileName, contents, item, sourced) ==
    compareDeltas(fileName, diff(contents, sourced), item.patches)

----------------------------------------------------------------------------
(* readSource, readGitSource *)

GitHubRepo    == "git@github.com:organization/repo.git"
OtherRepo     == "git@gitlab.com:organization/repo.git"
MalformedRepo == "organization repo"

\* regex.exec(git.repo): whether it matches, and the domain group
RepoMatch(repo) ==
    CASE repo = GitHubRepo -> [matched |-> TRUE,  domain |-> "github.com"]
      [] repo = OtherRepo  -> [matched |-> TRUE,  domain |-> "gitlab.com"]
      [] OTHER             -> [matched |-> FALSE, domain |-> ""]

\* readGitSource up to its fetch: the error thrown, or "" when the request
\* is sent
readGitSource(git) ==
    IF ~RepoMatch(git.repo).matched THEN "Must specify full git repo"
    ELSE IF RepoMatch(git.repo).domain = "github.com" THEN ""
    ELSE "Unknown git domain"

\* readSource up to the fetch
readSource(source) ==
    IF source.git THEN readGitSource(source)
    ELSE "Unknown manifest source"

\* what node-fetch can answer: a response that is ok, one that is not
\* (res.ok false), or no response at all (the promise rejects)
FetchOutcomes == {"ok", "notOk", "networkError"}

----------------------------------------------------------------------------
(* The inputs of a run *)

PathNames == <<"a.ts", "b.ts", "c.ts", "d.ts">>
Paths     == {PathNames[i] : i \in 1..NumPaths}
ManifestFile == "manifest.json"

\* the text every remote path serves, a local modification of it, and a
\* baseline of another commit
Baseline == [lines |-> <<"x">>, eol |-> TRUE]
Modified == [lines |-> <<"y">>, eol |-> TRUE]
Older    == [lines |-> <<"z">>, eol |-> TRUE]

NoFile == [exists |-> FALSE, content |-> EmptyText]
File(t) == [exists |-> TRUE, content |-> t]

GitSource(repo) == [git |-> TRUE, repo |-> repo]
NoGitSource     == [git |-> FALSE, repo |-> ""]

\* the patches a manifest item records: none, the diff of the modified file
\* against the baseline, or a diff taken against the older baseline
PatchChoices == {<<>>, diff(Modified, Baseline), diff(Modified, Older)}

Undeclared == [declared |-> FALSE, source |-> NoGitSource, patches |-> <<>>]
Item(src, ps) == [declared |-> TRUE, source |-> src, patches |-> ps]

\* what a path can be: on disk or not, declared in the manifest or not
PathCases ==
    {[file |-> f, item |-> Undeclared] : f \in {NoFile, File(Baseline)}}
    \cup {[file |-> f, item |-> Item(GitSource(GitHubRepo), ps)] :
            f \in {NoFile, File(Baseline), File(Modified)}, ps \in PatchChoices}
    \cup {[file |-> f, item |-> Item(src, <<>>)] :
            f \in {NoFile, File(Baseline)},
            src \in {GitSource(OtherRepo), GitSource(MalformedRepo), NoGitSource}}

\* readdir order: the paths in the order of PathNames, then the manifest
DiskOrder == [i \in 1..NumPaths |-> PathNames[i]] \o <<ManifestFile>>
Reverse(s) == [i \in 1..Len(s) |-> s[Len(s) + 1 - i]]

----------------------------------------------------------------------------
(* loadManifest, fetchFiles *)

\* loadManifest: the manifest file's own path is appended to allowedExtra
\* (manifestDir is the manifest's directory, patches default to [] and
\* strict to false in the document already)
loadManifest(json) ==
    [json EXCEPT !.allowedExtra = @ \o <<ManifestFile>>]

\* fetchFiles(manifestDir) mapped to relative paths, for a directory without
\* subdirectories: the regular files in readdir order
fetchFiles(d) ==
    LET present(f) == f = ManifestFile \/ d[f].exists
    IN  SelectSeq(DiskOrder, present)

----------------------------------------------------------------------------
(* Tasks: the async callbacks handed to Promise.all *)

NoText   == [kind |-> "none", text |-> EmptyText]
NoResult == [isNull |-> TRUE, error |-> NoError, given |-> <<>>, fileName |-> ""]

Task(fileName, st, error) ==
    [fileName |-> fileName, st |-> st, contents |-> EmptyText,
     result |-> NoResult, patched |-> NoText, error |-> error]

Settled(t) == t.st \in {"fulfilled", "rejected"}
Pending(t) == t.st \notin {"fulfilled", "rejected", "killed"}

\* the first promise to have rejected, ord being the order of settlement
FirstRejected(ts, ord) ==
    ord[CHOOSE m \in 1..Len(ord) :
            /\ ts[ord[m]].st = "rejected"
            /\ \A n \in 1..(m - 1) : ts[ord[n]].st # "rejected"]

\* Promise.allSettled followed by a filter of the fulfilled results: a join
\* that waits for every task and drops the failures
PromiseAllSettled(ts, ord) ==
    IF \A i \in 1..Len(ts) : Settled(ts[i])
    THEN [state |-> "fulfilled", reason |-> "",
          values |-> [i \in 1..Len(ts) |-> ts[i].result]]
    ELSE [state |-> "pending", reason |-> "", values |-> <<>>]

\* a join that hands the results over in the order of completion
PromiseAllByCompletion(ts, ord) ==
    IF \E i \in 1..Len(ts) : ts[i].st = "rejected"
    THEN [state |-> "rejected", reason |-> ts[FirstRejected(ts, ord)].error,
          values |-> <<>>]
    ELSE IF \A i \in 1..Len(ts) : ts[i].st = "fulfilled"
    THEN [state |-> "fulfilled", reason |-> "",
          values |-> [k \in 1..Len(ord) |-> ts[ord[k]].result]]
    ELSE [state |-> "pending", reason |-> "", values |-> <<>>]

\* Promise.all: rejected with the reason of the first promise to reject,
\* fulfilled with the values in the order of the array once all have
\* fulfilled
PromiseAll(ts, ord) ==
    IF \E i \in 1..Len(ts) : ts[i].st = "rejected"
    THEN [state |-> "rejected", reason |-> ts[FirstRejected(ts, ord)].error,
          values |-> <<>>]
    ELSE IF \A i \in 1..Len(ts) : ts[i].st = "fulfilled"
    THEN [state |-> "fulfilled", reason |-> "",
          values |-> [i \in 1..Len(ts) |-> ts[i].result]]
    ELSE [state |-> "pending", reason |-> "", values |-> <<>>]

----------------------------------------------------------------------------
(* audit after its Promise.all *)

\* one console.error / console.log call
Line(kind, heading, fs, r, n) ==
    [kind |-> kind, heading |-> heading, files |-> fs, result |-> r, n |-> n]

\* the found-hunks mapping: the file names in insertion order with their
\* hunks; JSON.stringify keeps that order
PatchesOf(errors) ==
    [i \in 1..Len(errors) |-> [fileName |-> errors[i].fileName,
                                hunks |-> errors[i].given]]

\* a verdict that takes every file found beside the declared ones for an
\* error, strict or not
AuditReportAlwaysStrict(comparisons, lcr, m) ==
    LET allowed(f)  == ~SetHas(m.allowedExtra, f)
        notNull(c)  == ~c.isNull
        extraFiles  == SelectSeq(lcr.leftDiff, allowed)
        errors      == SelectSeq(comparisons, notNull)
    IN  [lines |->
            (IF Len(lcr.rightDiff) > 0
             THEN <<Line("missing", "Audit Error", lcr.rightDiff, NoResult,
                         Len(lcr.rightDiff))>>
             ELSE <<>>)
            \o (IF Len(extraFiles) > 0
                THEN <<Line("unexpected", "Audit Error",
                            extraFiles, NoResult, Len(extraFiles))>>
                ELSE <<>>)
            \o [i \in 1..Len(errors) |->
                    Line("divergence", "Audit Error", <<>>, errors[i], 0)],
         patches |-> PatchesOf(errors),
         failed |-> \/ Len(lcr.rightDiff) > 0
                    \/ Len(extraFiles) > 0
                    \/ Len(errors) > 0]

\* audit, lines 533-578: the listings and the failed flag from the
\* comparisons, the reconciliation lcr and the loaded manifest m
AuditReport(comparisons, lcr, m) ==
    LET allowed(f)  == ~SetHas(m.allowedExtra, f)
        notNull(c)  == ~c.isNull
        extraFiles  == SelectSeq(lcr.leftDiff, allowed)
        errors      == SelectSeq(comparisons, notNull)
    IN  [lines |->
            (IF Len(lcr.rightDiff) > 0
             THEN <<Line("missing", "Audit Error", lcr.rightDiff, NoResult,
                         Len(lcr.rightDiff))>>
             ELSE <<>>)
            \o (IF Len(extraFiles) > 0
                THEN <<Line("unexpected",
                            IF m.strict THEN "Audit Error" ELSE "Audit Warning",
                            extraFiles, NoResult, Len(extraFiles))>>
                ELSE <<>>)
            \o [i \in 1..Len(errors) |->
                    Line("divergence", "Audit Error", <<>>, errors[i], 0)],
         patches |-> PatchesOf(errors),
         failed |-> \/ Len(lcr.rightDiff) > 0
                    \/ (Len(extraFiles) > 0 /\ m.strict)
                    \/ Len(errors) > 0]

fileCount(lcr) == Len(lcr.match) + Len(lcr.leftDiff) + Len(lcr.rightDiff)

\* audit, lines 586-595: the summary line and the exit status; process.exit(1)
\* after a failure, the end of the event loop (status 0) otherwise
Verdict(failed, lcr, con) ==
    /\ pc' = "done"
    /\ console' = con \o <<Line(IF failed THEN "failed" ELSE "success", "",
                                 <<>>, NoResult, fileCount(lcr))>>
    /\ exitCode' = IF failed THEN 1 ELSE 0

NoPatchesFile == [written |-> FALSE, content |-> <<>>]

\* audit from the fulfilment of Promise.all to its next await or its end
AuditAfterJoin(comparisons, lcr, m, con) ==
    LET rep == AuditReport(comparisons, lcr, m)
    IN  /\ thrown' = thrown
        /\ IF Len(rep.patches) > 0 /\ writePatches
           THEN /\ pc' = "writeFile"
                /\ console' = con \o rep.lines
                /\ patchesFile' = [written |-> FALSE, content |-> rep.patches]
                /\ exitCode' = exitCode
           ELSE /\ Verdict(rep.failed, lcr, con \o rep.lines)
                /\ patchesFile' = patchesFile

\* what follows the settlement of a task or the dispatch: the await of
\* Promise.all throws, returns, or goes on waiting
Joined(ts, ord, lcr, m, con) ==
    LET j == PromiseAll(ts, ord)
    IN  CASE j.state = "rejected" ->
                /\ pc' = "rejected"
                /\ thrown' = j.reason
                /\ console' = con
                /\ UNCHANGED <<patchesFile, exitCode>>
          [] j.state = "fulfilled" ->
                IF mode = "audit"
                THEN AuditAfterJoin(j.values, lcr, m, con)
                ELSE /\ pc' = "done"
                     /\ exitCode' = 0
                     /\ console' = con
                     /\ UNCHANGED <<patchesFile, thrown>>
          [] OTHER ->
                /\ pc' = "join"
                /\ console' = con
                /\ UNCHANGED <<patchesFile, thrown, exitCode>>

----------------------------------------------------------------------------
(* A run of the command: index.ts, audit, sync *)

\* nothing called yet
NoCall    == [called |-> FALSE, args |-> <<<<>>, <<>>>>,
              res |-> listCompare(<<>>, <<>>)]
NoCompare == [called |-> FALSE, res |-> NoResult]
NoDiff    == [phase |-> 0, hunks |-> <<>>, reversed |-> <<>>, applied |-> NoText]
NoReverse == [phase |-> 0, arg |-> <<>>, once |-> <<>>, twice |-> <<>>]
NoWalk    == [pc |-> "readdir", files |-> <<>>, i |-> 1, fetchedFiles |-> <<>>,
              read |-> {}, diskFiles |-> <<>>]
WalkIdle  == targetPath = <<".">> /\ tree = {} /\ walk = NoWalk

\* the variables of the pure-function specifications while a run is modelled
PureIdle ==
    /\ left = <<>> /\ right = <<>> /\ lc = NoCall
    /\ given = <<>> /\ exp = <<>> /\ cmp = NoCompare
    /\ txtA = EmptyText /\ txtB = EmptyText /\ dres = NoDiff
    /\ patches = <<>> /\ reversedPatches = NoReverse
    /\ WalkIdle

\* index.ts: --sync selects sync, otherwise audit with the --patches flag;
\* the manifest document and the directory are inputs
Init ==
    /\ PureIdle
    /\ mode \in {"audit", "sync"}
    /\ writePatches \in (IF mode = "audit" THEN BOOLEAN ELSE {FALSE})
    /\ \E cases \in [Paths -> PathCases], rev \in BOOLEAN :
          LET declared(f) == f # ManifestFile /\ cases[f].item.declared
              keys == SelectSeq(DiskOrder, declared)
          IN  /\ manifest \in [keys : {IF rev THEN Reverse(keys) ELSE keys},
                                items : {[f \in Paths |-> cases[f].item]},
                                strict : BOOLEAN,
                                allowedExtra : {<<>>, <<PathNames[1]>>}]
              /\ disk0 = [f \in Paths |-> cases[f].file]
    /\ disk = disk0
    /\ pc = "start"
    /\ files = <<>> /\ extraFilesFound = <<>> /\ missingFiles = <<>>
    /\ tasks = <<>> /\ order = <<>>
    /\ console = <<>>
    /\ patchesFile = NoPatchesFile
    /\ thrown = ""
    /\ exitCode = -1

\* the process runs: it has not exited and no callback loops for ever
Alive == exitCode = -1 /\ \A i \in 1..Len(tasks) : tasks[i].st # "hang"

\* the reconciliation the orchestrator holds
Reconciled ==
    [match |-> files, leftDiff |-> extraFilesFound, rightDiff |-> missingFiles]

\* await loadManifest(manifestFile)
LoadManifest ==
    /\ pc = "start"
    /\ manifest' = loadManifest(manifest)
    /\ pc' = "fetchFiles"
    /\ UNCHANGED <<walkVars, recVars, cmpVars, diffVars, mode, writePatches, disk0, disk,
                   files, extraFilesFound, missingFiles, tasks, order, console,
                   patchesFile, thrown, exitCode>>

\* the first step of the callback for fileName, up to its first await on
\* I/O: audit awaits readFile; sync logs the item and enters patchFile,
\* whose readSource throws or sends the request
StartTask(fileName) ==
    IF mode = "audit" THEN Task(fileName, "readFile", "")
    ELSE LET e == readSource(manifest.items[fileName].source)
         IN  IF e # "" THEN Task(fileName, "rejected", e)
             ELSE Task(fileName, "fetch", "")

\* sync restricted to the files found on disk
DispatchedMatchedOnly(lcr) == lcr.match

\* the files handed to Promise.all: files in audit, files.concat(missingFiles)
\* in sync
Dispatched(lcr) ==
    IF mode = "audit" THEN lcr.match ELSE lcr.match \o lcr.rightDiff

\* fetchFiles returns; listCompare, the map over the files and the call of
\* Promise.all follow without an await in between
Dispatch ==
    /\ pc = "fetchFiles"
    /\ LET lcr   == listCompare(fetchFiles(disk), manifest.keys)
           names == Dispatched(lcr)
           ts    == [i \in 1..Len(names) |-> StartTask(names[i])]
           isRej(i) == ts[i].st = "rejected"
           ord   == SelectSeq([i \in 1..Len(names) |-> i], isRej)
           con   == IF mode = "sync"
                    THEN [i \in 1..Len(names) |->
                             Line("item", "", <<names[i]>>, NoResult, 0)]
                    ELSE <<>>
       IN  /\ files' = lcr.match
           /\ extraFilesFound' = lcr.leftDiff
           /\ missingFiles' = lcr.rightDiff
           /\ tasks' = ts
           /\ order' = ord
           /\ Joined(ts, ord, lcr, manifest, console \o con)
    /\ UNCHANGED <<walkVars, recVars, cmpVars, diffVars, mode, writePatches, manifest,
                   disk0, disk>>

\* the orchestrator after task i has taken a step: resumed when it awaits
\* Promise.all, untouched when it has already thrown
After(ts, ord, con) ==
    IF pc = "join" THEN Joined(ts, ord, Reconciled, manifest, con)
    ELSE /\ console' = con
         /\ UNCHANGED <<pc, patchesFile, thrown, exitCode>>

\* task i moves to ti; it is appended to the order of settlement when ti
\* is settled
Step(i, ti, con) ==
    LET ts  == [tasks EXCEPT ![i] = ti]
        ord == IF Settled(ti) THEN Append(order, i) ELSE order
    IN  /\ tasks' = ts
        /\ order' = ord
        /\ After(ts, ord, con)
        /\ UNCHANGED <<walkVars, recVars, cmpVars, diffVars, mode, writePatches, manifest,
                       disk0, files, extraFilesFound, missingFiles>>

\* audit: readFile of the local file returns; checkFile enters readSource,
\* which throws or sends the request
ReadFileDone(i) ==
    /\ Alive
    /\ i \in 1..Len(tasks)
    /\ tasks[i].st = "readFile"
    /\ LET f == tasks[i].fileName
           e == readSource(manifest.items[f].source)
           t == [tasks[i] EXCEPT !.contents = disk[f].content]
       IN  Step(i, IF e # "" THEN [t EXCEPT !.st = "rejected", !.error = e]
                   ELSE [t EXCEPT !.st = "fetch"],
                console)
    /\ UNCHANGED disk

\* readGitSource: the fetch settles
FetchDone(i) ==
    /\ Alive
    /\ i \in 1..Len(tasks)
    /\ tasks[i].st = "fetch"
    /\ \E outcome \in FetchOutcomes :
          Step(i, CASE outcome = "ok"    -> [tasks[i] EXCEPT !.st = "text"]
                    [] outcome = "notOk" -> [tasks[i] EXCEPT !.st = "errText"]
                    [] OTHER -> [tasks[i] EXCEPT !.st = "rejected",
                                                 !.error = "FetchError"],
               console)
    /\ UNCHANGED disk

\* readGitSource: the body of a response that is not ok has been read, the
\* error is thrown
ErrTextDone(i) ==
    /\ Alive
    /\ i \in 1..Len(tasks)
    /\ tasks[i].st = "errText"
    /\ Step(i, [tasks[i] EXCEPT !.st = "rejected", !.error = "Failed to fetch"],
            console)
    /\ UNCHANGED disk

\* patchFile from the arrival of sourced to the await of mkdir
patched(item, sourced) == applyPatch(sourced, reversePatch(item.patches))

\* readGitSource: the body of the response (the baseline) has been read;
\* audit compares and the callback returns, sync patches and awaits mkdir
TextDone(i) ==
    /\ Alive
    /\ i \in 1..Len(tasks)
    /\ tasks[i].st = "text"
    /\ LET f    == tasks[i].fileName
           item == manifest.items[f]
       IN  IF mode = "audit"
           THEN Step(i, [tasks[i] EXCEPT
                            !.st = "fulfilled",
                            !.result = checkFile(f, tasks[i].contents, item,
                                                 Baseline)],
                     console)
           ELSE LET p == patched(item, Baseline)
                IN  Step(i, [tasks[i] EXCEPT
                                !.st = IF p.kind = "hang" THEN "hang" ELSE "mkdir",
                                !.patched = p],
                         Append(console, Line("writing", "", <<f>>, NoResult, 0)))
    /\ UNCHANGED disk

\* patchFile: mkdir returns and writeFile is called; it throws
\* ERR_INVALID_ARG_TYPE for the false of a patch that did not apply, before
\* it opens the file
MkdirDone(i) ==
    /\ Alive
    /\ i \in 1..Len(tasks)
    /\ tasks[i].st = "mkdir"
    /\ Step(i, IF tasks[i].patched.kind = "false"
                THEN [tasks[i] EXCEPT !.st = "rejected",
                                      !.error = "ERR_INVALID_ARG_TYPE"]
                ELSE [tasks[i] EXCEPT !.st = "writeFile"],
            console)
    /\ UNCHANGED disk

\* patchFile: writeFile has written the file
WriteFileDone(i) ==
    /\ Alive
    /\ i \in 1..Len(tasks)
    /\ tasks[i].st = "writeFile"
    /\ disk' = [disk EXCEPT ![tasks[i].fileName] = File(tasks[i].patched.text)]
    /\ Step(i, [tasks[i] EXCEPT !.st = "fulfilled"], console)

\* audit: patches.json has been written; the verdict follows
WritePatchesDone ==
    /\ Alive
    /\ pc = "writeFile"
    /\ patchesFile' = [patchesFile EXCEPT !.written = TRUE]
    /\ Verdict(AuditReport(PromiseAll(tasks, order).values, Reconciled,
                           manifest).failed,
               Reconciled,
               Append(console, Line("patchesWritten", "", <<>>, NoResult, 0)))
    /\ UNCHANGED <<walkVars, recVars, cmpVars, diffVars, mode, writePatches, manifest,
                   disk0, disk, files, extraFilesFound, missingFiles, tasks,
                   order, thrown>>

\* index.ts neither awaits nor catches the promise of audit or sync: the
\* rejection is unhandled. Node 15 and later end the process with status 1
\* at once, what is pending is lost; earlier versions warn, and the process
\* ends with status 0 when nothing is pending any more
UnhandledRejection ==
    /\ Alive
    /\ pc = "rejected"
    /\ \/ /\ exitCode' = 1
          /\ tasks' = [i \in 1..Len(tasks) |->
                          IF Pending(tasks[i])
                          THEN [tasks[i] EXCEPT !.st = "killed"] ELSE tasks[i]]
       \/ /\ \A i \in 1..Len(tasks) : ~Pending(tasks[i])
          /\ exitCode' = 0
          /\ tasks' = tasks
    /\ UNCHANGED <<walkVars, recVars, cmpVars, diffVars, mode, writePatches, manifest,
                   disk0, disk, pc, files, extraFilesFound, missingFiles,
                   order, console, patchesFile, thrown>>

Next ==
    \/ LoadManifest
    \/ Dispatch
    \/ \E i \in 1..NumPaths : ReadFileDone(i)
    \/ \E i \in 1..NumPaths : FetchDone(i)
    \/ \E i \in 1..NumPaths : ErrTextDone(i)
    \/ \E i \in 1..NumPaths : TextDone(i)
    \/ \E i \in 1..NumPaths : MkdirDone(i)
    \/ \E i \in 1..NumPaths : WriteFileDone(i)
    \/ WritePatchesDone
    \/ UnhandledRejection

Spec == Init /\ [][Next]_vars

----------------------------------------------------------------------------
(* The audit verdict and the accepted drift *)

\* the five fields of a hunk
HunkFields(h) == <<h.oldStart, h.oldLines, h.newStart, h.newLines, h.lines>>

DeclaredPaths   == Range(manifest.keys)
OnDisk          == {f \in Paths : disk0[f].exists} \cup {ManifestFile}
missingFromDisk == {f \in DeclaredPaths : ~disk0[f].exists}
matchedPaths    == {f \in DeclaredPaths : disk0[f].exists}
unexpectedExtra == (OnDisk \ DeclaredPaths) \ Range(manifest.allowedExtra)

\* the local file differs from the baseline by other hunks than the recorded
Diverges(f) ==
    {HunkFields(h) : h \in Range(diff(disk0[f].content, Baseline))}
        # {HunkFields(h) : h \in Range(manifest.items[f].patches)}

AuditFinished == mode = "audit" /\ pc = "done"

\* C1: an audit whose fetches all succeed ends in failure (failed summary,
\* exit status 1) if and only if a declared file is missing from disk, or a
\* matched file diverges, or strict is set and there is an unexpected extra
\* file; otherwise it ends with the success summary and status 0
C1_VerdictRule ==
    AuditFinished =>
        LET fails == \/ missingFromDisk # {}
                     \/ \E f \in matchedPaths : Diverges(f)
                     \/ (manifest.strict /\ unexpectedExtra # {})
        IN  /\ exitCode = (IF fails THEN 1 ELSE 0)
            /\ console[Len(console)].kind = (IF fails THEN "failed" ELSE "success")

\* an audit without strict that failed for a missing file alone, beside one
\* that passed with an unexpected extra file
C1_Witness ==
    /\ AuditFinished
    /\ ~manifest.strict
    /\ unexpectedExtra # {}
    /\ \/ exitCode = 1 /\ missingFromDisk # {}
             /\ \A f \in matchedPaths : ~Diverges(f)
       \/ exitCode = 0 /\ matchedPaths # {}

\* the emitted mapping as it comes back from patches.json
Accepted(f) ==
    IF \E k \in 1..Len(patchesFile.content) : patchesFile.content[k].fileName = f
    THEN LET e == CHOOSE e \in Range(patchesFile.content) : e.fileName = f
         IN  [i \in 1..Len(e.hunks) |-> parseHunk(stringifyHunk(e.hunks[i]))]
    ELSE manifest.items[f].patches

\* C2: a matched file whose recorded patches are the diff of its local
\* content against the baseline is reported without divergence although it
\* differs from the baseline; and once patches.json has been written, an
\* audit of the same files with the emitted hunks put in place of the
\* recorded ones finds no divergence
C2_AcceptedDrift ==
    /\ \A i \in 1..Len(tasks) :
          (/\ mode = "audit"
           /\ tasks[i].st = "fulfilled"
           /\ manifest.items[tasks[i].fileName].patches
                 = diff(disk0[tasks[i].fileName].content, Baseline))
          => tasks[i].result.isNull
    /\ patchesFile.written =>
          \A i \in 1..Len(files) :
             checkFile(files[i], disk[files[i]].content,
                       [manifest.items[files[i]] EXCEPT !.patches = Accepted(files[i])],
                       Baseline).isNull

\* patches.json written for a divergent file, and a modified file whose
\* recorded patches are its diff audited without divergence
C2_Witness ==
    /\ patchesFile.written
    /\ \E i \in 1..Len(tasks) :
          /\ tasks[i].result.isNull
          /\ tasks[i].st = "fulfilled"
          /\ tasks[i].contents = Modified
          /\ manifest.items[tasks[i].fileName].patches = diff(Modified, Baseline)

----------------------------------------------------------------------------
(* sync *)

SyncFinished == mode = "sync" /\ pc = "done"

\* C4: after a sync run whose fetches and patch applications all succeed,
\* every declared path, found on disk or missing, exists on disk and holds
\* the baseline with the inverted recorded patches applied, whatever it held
\* before
C4_SyncWritesDeclared ==
    SyncFinished =>
        \A f \in DeclaredPaths :
            /\ disk[f].exists
            /\ disk[f].content
                  = applyPatch(Baseline, reversePatch(manifest.items[f].patches)).text

\* a finished sync that created a missing file and replaced the content of
\* a file found on disk
C4_Witness ==
    /\ SyncFinished
    /\ missingFromDisk # {}
    /\ \E f \in matchedPaths : disk[f] # disk0[f]

----------------------------------------------------------------------------
(* Failures and the join *)

\* C6: once the fetch of a matched file has failed in audit, the run has
\* failed with the error of the first failure: no listing and no verdict
\* line is printed and patches.json is not written, whatever the other
\* files yield
C6_FetchFailureIsFatal ==
    (mode = "audit" /\ \E i \in 1..Len(tasks) : tasks[i].st = "rejected") =>
        /\ pc = "rejected"
        /\ thrown = tasks[FirstRejected(tasks, order)].error
        /\ thrown \in {"FetchError", "Failed to fetch", "Unknown git domain",
                        "Must specify full git repo", "Unknown manifest source"}
        /\ console = <<>>
        /\ patchesFile = NoPatchesFile

\* an audit that failed on a fetch although another file had been compared
\* and found divergent
C6_Witness ==
    /\ mode = "audit"
    /\ pc = "rejected"
    /\ thrown = "Failed to fetch"
    /\ \E i \in 1..Len(tasks) :
          tasks[i].st = "fulfilled" /\ ~tasks[i].result.isNull

\* the comparisons of the matched files in the order of the reconciliation
\* of the directory listing with the manifest, from the inputs alone
ExpectedReconciled ==
    LET declared(f)   == f \in DeclaredPaths
        undeclared(f) == f \notin DeclaredPaths
        missing(f)    == f \in missingFromDisk
    IN  [match     |-> SelectSeq(fetchFiles(disk0), declared),
         leftDiff  |-> SelectSeq(fetchFiles(disk0), undeclared),
         rightDiff |-> SelectSeq(manifest.keys, missing)]

ExpectedComparisons ==
    LET m == ExpectedReconciled.match
    IN  [i \in 1..Len(m) |->
            compareDeltas(m[i], diff(disk0[m[i]].content, Baseline),
                          manifest.items[m[i]].patches)]

\* C8: whatever the order in which the tasks of an audit complete, the
\* divergences are printed, and entered into the found-hunks mapping, in the
\* order of the matched files, and what is printed and the exit status
\* depend on the inputs only
C8_ReportInReconciliationOrder ==
    AuditFinished =>
        LET rep  == AuditReport(ExpectedComparisons, ExpectedReconciled, manifest)
            emit == Len(rep.patches) > 0 /\ writePatches
        IN  /\ console =
                  rep.lines
                  \o (IF emit THEN <<Line("patchesWritten", "", <<>>, NoResult, 0)>>
                      ELSE <<>>)
                  \o <<Line(IF rep.failed THEN "failed" ELSE "success", "", <<>>,
                            NoResult, fileCount(ExpectedReconciled))>>
            /\ patchesFile = (IF emit THEN [written |-> TRUE, content |-> rep.patches]
                              ELSE NoPatchesFile)
            /\ exitCode = (IF rep.failed THEN 1 ELSE 0)

\* an audit of two divergent files whose second task completed first
C8_Witness ==
    /\ AuditFinished
    /\ order = <<2, 1>>
    /\ ~tasks[1].result.isNull /\ ~tasks[2].result.isNull
    /\ patchesFile.written

\* C9: in audit and in sync the orchestrator is past the await of
\* Promise.all (it has thrown, it writes patches.json or it has finished)
\* only when every dispatched task has settled
C9_JoinedBeforeProceeding ==
    pc \in {"rejected", "writeFile", "done"} =>
        \A i \in 1..Len(tasks) : Settled(tasks[i])

PatchFailed(i) == tasks[i].error = "ERR_INVALID_ARG_TYPE"

\* C10: when the inverted patches of a declared file do not apply in sync,
\* the file is left as it was, the error reaches the caller of sync only
\* when every task of the batch has settled, and at the end of the process
\* every sibling whose fetch and patch application succeeded has been
\* written
C10_PatchFailureConfined ==
    (mode = "sync" /\ \E i \in 1..Len(tasks) : PatchFailed(i)) =>
        /\ \A i \in 1..Len(tasks) :
              PatchFailed(i) => disk[tasks[i].fileName] = disk0[tasks[i].fileName]
        /\ pc = "rejected" => \A i \in 1..Len(tasks) : Settled(tasks[i])
        /\ exitCode # -1 =>
              \A i \in 1..Len(tasks) :
                 tasks[i].patched.kind = "text" =>
                    disk[tasks[i].fileName].content = tasks[i].patched.text

----------------------------------------------------------------------------
(* listCompare, compareDeltas and the diff round trip on their own *)

\* no run of the command
RunIdle ==
    /\ mode = "audit" /\ writePatches = FALSE
    /\ manifest = [keys |-> <<>>, items |-> [f \in Paths |-> Undeclared],
                   strict |-> FALSE, allowedExtra |-> <<>>]
    /\ disk0 = [f \in Paths |-> NoFile] /\ disk = disk0
    /\ pc = "idle"
    /\ files = <<>> /\ extraFilesFound = <<>> /\ missingFiles = <<>>
    /\ tasks = <<>> /\ order = <<>> /\ console = <<>>
    /\ patchesFile = NoPatchesFile /\ thrown = "" /\ exitCode = -1

Elems == {"a", "b", "c"}

RecInit ==
    /\ left \in SeqsUpTo(Elems, MaxLen)
    /\ right \in SeqsUpTo(Elems, MaxLen)
    /\ lc = NoCall
    /\ given = <<>> /\ exp = <<>> /\ cmp = NoCompare
    /\ txtA = EmptyText /\ txtB = EmptyText /\ dres = NoDiff
    /\ patches = <<>> /\ reversedPatches = NoReverse
    /\ WalkIdle
    /\ RunIdle

\* a call listCompare(left, right); left and right are the caller's arrays,
\* which hold afterwards what the call has left in them
Compare ==
    /\ ~lc.called
    /\ LET r == listCompare(left, right)
       IN  /\ lc' = [called |-> TRUE, args |-> <<left, right>>, res |-> r]
           /\ left' = r.left
           /\ right' = r.right
    /\ UNCHANGED <<walkVars, cmpVars, diffVars, runVars>>

RecNext == Compare

SpecRec == RecInit /\ [][RecNext]_vars

\* C7: listCompare(L, R) returns match, leftDiff and rightDiff with every
\* element of match in L and in R, no element of leftDiff in R, no element
\* of rightDiff in L, every element of L in match or leftDiff and every
\* element of R in match or rightDiff, the three pairwise disjoint; L and R
\* are as they were before the call
C7_Reconcile ==
    lc.called =>
        LET L == Range(lc.args[1])
            R == Range(lc.args[2])
            matched   == Range(lc.res.match)
            onlyLeft  == Range(lc.res.leftDiff)
            onlyRight == Range(lc.res.rightDiff)
        IN  /\ matched \subseteq L \cap R
            /\ onlyLeft \cap R = {}
            /\ onlyRight \cap L = {}
            /\ L \subseteq matched \cup onlyLeft
            /\ R \subseteq matched \cup onlyRight
            /\ matched \cap onlyLeft = {}
            /\ matched \cap onlyRight = {}
            /\ onlyLeft \cap onlyRight = {}
            /\ left = lc.args[1]
            /\ right = lc.args[2]

\* a call with a common element, one only in L and one only in R, L holding
\* an element twice
C7_Witness ==
    /\ lc.called
    /\ lc.res.match # <<>> /\ lc.res.leftDiff # <<>> /\ lc.res.rightDiff # <<>>
    /\ Len(left) > Cardinality(Range(left))

----------------------------------------------------------------------------
(* compareDeltas on its own *)

\* hunks as diff builds them, and the first of them as a manifest may spell
\* it: the same five properties, "lines" written first
HunkA == diff(Modified, Baseline)[1]
HunkB == diff(Modified, Older)[1]
HunkALinesFirst ==
    [HunkA EXCEPT !.keys = <<"lines", "oldStart", "oldLines", "newStart", "newLines">>]
HunkPool == {HunkA, HunkB, HunkALinesFirst}

CmpInit ==
    /\ given \in SeqsUpTo({HunkA, HunkB}, MaxHunks)
    /\ exp \in SeqsUpTo(HunkPool, MaxHunks)
    /\ cmp = NoCompare
    /\ left = <<>> /\ right = <<>> /\ lc = NoCall
    /\ txtA = EmptyText /\ txtB = EmptyText /\ dres = NoDiff
    /\ patches = <<>> /\ reversedPatches = NoReverse
    /\ WalkIdle
    /\ RunIdle

\* a call compareDeltas(fileName, given, exp): given as diff computes it,
\* exp as the manifest records it
CompareDeltas ==
    /\ ~cmp.called
    /\ cmp' = [called |-> TRUE, res |-> compareDeltas(PathNames[1], given, exp)]
    /\ UNCHANGED <<walkVars, recVars, given, exp, diffVars, runVars>>

CmpNext == CompareDeltas

SpecCmp == CmpInit /\ [][CmpNext]_vars

\* C5: compareDeltas(fileName, found, expected) is null exactly when found
\* and expected hold the same hunks as sets, two hunks being the same when
\* their oldStart, oldLines, newStart, newLines and lines are equal, whatever
\* the order of either sequence; otherwise the result carries the file name
\* and the whole found sequence
C5_CompareAsSets ==
    cmp.called =>
        /\ cmp.res.isNull <=>
              {HunkFields(h) : h \in Range(given)} = {HunkFields(h) : h \in Range(exp)}
        /\ ~cmp.res.isNull =>
              cmp.res.fileName = PathNames[1] /\ cmp.res.given = given

----------------------------------------------------------------------------
(* diff, reversePatch and applyPatch on their own *)

DiffInit ==
    /\ txtA \in Texts
    /\ txtB \in Texts
    /\ dres = NoDiff
    /\ patches = <<>> /\ reversedPatches = NoReverse
    /\ WalkIdle
    /\ left = <<>> /\ right = <<>> /\ lc = NoCall
    /\ given = <<>> /\ exp = <<>> /\ cmp = NoCompare
    /\ RunIdle

\* checkFile: patches = diff(contents, sourced)
DiffStep ==
    /\ dres.phase = 0
    /\ dres' = [dres EXCEPT !.phase = 1, !.hunks = diff(txtA, txtB)]
    /\ UNCHANGED <<walkVars, recVars, cmpVars, txtA, txtB, patches, reversedPatches, runVars>>

\* patchFile: reversedPatches = reversePatch(item.patches)
ReverseStep ==
    /\ dres.phase = 1
    /\ dres' = [dres EXCEPT !.phase = 2, !.reversed = reversePatch(dres.hunks)]
    /\ UNCHANGED <<walkVars, recVars, cmpVars, txtA, txtB, patches, reversedPatches, runVars>>

\* patchFile: patched = applyPatch(sourced, {hunks: reversedPatches})
ApplyStep ==
    /\ dres.phase = 2
    /\ dres' = [dres EXCEPT !.phase = 3, !.applied = applyPatch(txtB, dres.reversed)]
    /\ UNCHANGED <<walkVars, recVars, cmpVars, txtA, txtB, patches, reversedPatches, runVars>>

DiffNext == DiffStep \/ ReverseStep \/ ApplyStep

SpecDiff == DiffInit /\ [][DiffNext]_vars

\* C3: for all texts a and b, the inverted hunks of diff(a, b) applied to b
\* give a again, byte for byte, and diff(a, a) is the empty sequence of
\* hunks
C3_RoundTrip ==
    /\ (dres.phase >= 1 /\ txtA = txtB) => dres.hunks = <<>>
    /\ dres.phase = 3 => dres.applied = [kind |-> "text", text |-> txtA]

----------------------------------------------------------------------------
(* reversePatch on its own *)

\* the hunk sequences a manifest can record: what diff yields for a pair of
\* texts, and such a sequence reversed (with linedelimiters)
HunkSeqs ==
    LET ds == {diff(a, b) : a, b \in Texts}
    IN  ds \cup {reversePatch(d) : d \in ds}

RevInit ==
    /\ patches \in HunkSeqs
    /\ reversedPatches = NoReverse
    /\ WalkIdle
    /\ left = <<>> /\ right = <<>> /\ lc = NoCall
    /\ given = <<>> /\ exp = <<>> /\ cmp = NoCompare
    /\ txtA = EmptyText /\ txtB = EmptyText /\ dres = NoDiff
    /\ RunIdle

\* a call reversePatch(patches); patches is the caller's array, which the map
\* leaves as it is
ReversePatch ==
    /\ reversedPatches.phase = 0
    /\ reversedPatches' = [reversedPatches EXCEPT !.phase = 1, !.arg = patches, !.once = reversePatch(patches)]
    /\ patches' = patches
    /\ UNCHANGED <<walkVars, recVars, cmpVars, txtA, txtB, dres, runVars>>

\* reversePatch called on the result of the first call
ReversePatchAgain ==
    /\ reversedPatches.phase = 1
    /\ reversedPatches' = [reversedPatches EXCEPT !.phase = 2, !.twice = reversePatch(reversedPatches.once)]
    /\ patches' = patches
    /\ UNCHANGED <<walkVars, recVars, cmpVars, txtA, txtB, dres, runVars>>

RevNext == ReversePatch \/ ReversePatchAgain

SpecRev == RevInit /\ [][RevNext]_vars

\* C11: reversePatch maps each hunk to a hunk with (oldStart, oldLines) and
\* (newStart, newLines) exchanged and the prefix of each line flipped ("+"
\* to "-", "-" to "+", any other line unchanged); it keeps the number and
\* the order of the hunks and of their lines and leaves its argument as it
\* was; applied twice it gives back the five fields of every hunk
C11_InvertInvolution ==
    /\ reversedPatches.phase >= 1 =>
          /\ patches = reversedPatches.arg
          /\ Len(reversedPatches.once) = Len(reversedPatches.arg)
          /\ \A i \in 1..Len(reversedPatches.arg) :
                LET h == reversedPatches.arg[i]
                    r == reversedPatches.once[i]
                IN  /\ <<r.oldStart, r.oldLines>> = <<h.newStart, h.newLines>>
                    /\ <<r.newStart, r.newLines>> = <<h.oldStart, h.oldLines>>
                    /\ Len(r.lines) = Len(h.lines)
                    /\ \A j \in 1..Len(h.lines) :
                          /\ r.lines[j][2] = h.lines[j][2]
                          /\ r.lines[j][1] =
                                (CASE h.lines[j][1] = "+" -> "-"
                                   [] h.lines[j][1] = "-" -> "+"
                                   [] OTHER -> h.lines[j][1])
    /\ reversedPatches.phase = 2 =>
          [i \in 1..Len(reversedPatches.twice) |-> HunkFields(reversedPatches.twice[i])]
              = [i \in 1..Len(reversedPatches.arg) |-> HunkFields(reversedPatches.arg[i])]

\* two hunks reversed twice, with added, removed and context lines
C11_Witness ==
    /\ reversedPatches.phase = 2
    /\ Len(reversedPatches.arg) = 2
    /\ \E i \in 1..2 :
          \A op \in {"+", "-", " "} :
             \E j \in 1..Len(reversedPatches.arg[i].lines) : reversedPatches.arg[i].lines[j][1] = op

----------------------------------------------------------------------------
(* fetchFiles on its own: the directory walk *)

\* A path is the sequence of its segments.  path.normalize drops the "."
\* segments; the empty path is "."
normalize(p) ==
    LET seg(x) == x # "."
        q == SelectSeq(p, seg)
    IN  IF q = <<>> THEN <<".">> ELSE q

\* path.join(a, b): the segments of both, normalized
pathJoin(a, b) == normalize(a \o b)

\* the path as resolved against the working directory
Resolve(p) ==
    LET seg(x) == x # "."
    IN  SelectSeq(p, seg)

\* path.relative(from, to): ".." for every segment of from beyond the
\* common prefix, then the rest of to
relative(from, to) ==
    LET f == Resolve(from)
        t == Resolve(to)
        common(k) == k <= Len(f) /\ k <= Len(t) /\ SubSeq(f, 1, k) = SubSeq(t, 1, k)
        k == CHOOSE k \in 0..Len(f) : common(k) /\ ~common(k + 1)
    IN  [i \in 1..(Len(f) - k) |-> ".."] \o SubSeq(t, k + 1, Len(t))

\* The entries below the target directory: [path, kind], path relative to
\* the directory, kind "file", "dir" or "link" (a symbolic link; the entries
\* below a link are those of the directory it points to)
Names == {"a", "b"}
Kinds == {"file", "dir", "link"}

PathsOf(es) == {e.path : e \in es}

\* the trees with one more entry than es: a new entry in the directory
\* itself, below one of its directories, or below a link
Grow(es) ==
    {es \cup {[path |-> par \o <<n>>, kind |-> k]} :
        par \in {<<>>} \cup {e.path : e \in {x \in es : x.kind # "file"}},
        n \in Names, k \in Kinds}

RECURSIVE TreesUpTo(_)
TreesUpTo(n) ==
    IF n = 0 THEN {{}}
    ELSE LET S == TreesUpTo(n - 1)
         IN  S \cup {t \in UNION {Grow(es) : es \in S} :
                        Cardinality(PathsOf(t)) = Cardinality(t)}

\* lstat followed by stat for the links: a link is what it points to
stat(p) ==
    LET q == relative(targetPath, p)
    IN  IF \E e \in tree : e.path = q
        THEN LET k == (CHOOSE e \in tree : e.path = q).kind
             IN  IF k # "link" THEN k
                 ELSE IF \E e \in tree : Len(e.path) = Len(q) + 1
                                         /\ SubSeq(e.path, 1, Len(q)) = q
                      THEN "dir" ELSE "file"
        ELSE "none"

\* lstat(filepath): the kind of the entry itself, a link is not followed
lstat(p) ==
    LET q == relative(targetPath, p)
    IN  IF \E e \in tree : e.path = q
        THEN (CHOOSE e \in tree : e.path = q).kind
        ELSE "none"

\* readdir(p): the names in the directory p, in the orders the file system
\* may give them
readdir(p) ==
    LET q  == relative(targetPath, p)
        ns == {e.path[Len(e.path)] :
                 e \in {x \in tree : /\ Len(x.path) = Len(q) + 1
                                     /\ SubSeq(x.path, 1, Len(q)) = q}}
    IN  {o \in [1..Cardinality(ns) -> ns] :
            \A i, j \in 1..Cardinality(ns) : o[i] = o[j] => i = j}

WalkInit ==
    /\ targetPath \in {<<".">>, <<"vendor">>}
    /\ tree \in TreesUpTo(MaxEntries)
    /\ walk = NoWalk
    /\ left = <<>> /\ right = <<>> /\ lc = NoCall
    /\ given = <<>> /\ exp = <<>> /\ cmp = NoCompare
    /\ txtA = EmptyText /\ txtB = EmptyText /\ dres = NoDiff
    /\ patches = <<>> /\ reversedPatches = NoReverse
    /\ RunIdle

\* the for-of loop of fetchFiles reaches its next await, or ends: fetchFiles
\* returns and audit maps the files to paths relative to manifestDir
Advance(w) ==
    IF w.i > Len(w.files)
    THEN [w EXCEPT !.pc = "done",
                   !.diskFiles = [k \in 1..Len(w.fetchedFiles) |->
                                     relative(targetPath, w.fetchedFiles[k])]]
    ELSE [w EXCEPT !.pc = "lstat"]

\* await readdir(targetPath) returns
ReaddirDone ==
    /\ walk.pc = "readdir"
    /\ \E names \in readdir(targetPath) :
          walk' = Advance([walk EXCEPT
                              !.files = [k \in 1..Len(names) |-> <<names[k]>>],
                              !.read = @ \cup {<<>>}])
    /\ UNCHANGED <<recVars, cmpVars, diffVars, targetPath, tree, runVars>>

\* await lstat(filepath) returns: a regular file is pushed, a directory is
\* read, anything else is passed over
LstatDone ==
    /\ walk.pc = "lstat"
    /\ LET file     == walk.files[walk.i]
           filepath == pathJoin(targetPath, file)
           stats    == lstat(filepath)
           w        == IF stats = "file"
                       THEN [walk EXCEPT !.fetchedFiles = Append(@, normalize(filepath))]
                       ELSE walk
       IN  walk' = IF stats = "dir"
                   THEN [w EXCEPT !.pc = "readdirChild"]
                   ELSE Advance([w EXCEPT !.i = @ + 1])
    /\ UNCHANGED <<recVars, cmpVars, diffVars, targetPath, tree, runVars>>

\* await readdir(filepath) returns: the children are pushed onto the array
\* the loop iterates over
ReaddirChildDone ==
    /\ walk.pc = "readdirChild"
    /\ LET file     == walk.files[walk.i]
           filepath == pathJoin(targetPath, file)
       IN  \E childFiles \in readdir(filepath) :
              walk' = Advance([walk EXCEPT
                          !.files = @ \o [k \in 1..Len(childFiles) |->
                                            pathJoin(file, <<childFiles[k]>>)],
                          !.read = @ \cup {relative(targetPath, filepath)},
                          !.i = @ + 1])
    /\ UNCHANGED <<recVars, cmpVars, diffVars, targetPath, tree, runVars>>

WalkNext == ReaddirDone \/ LstatDone \/ ReaddirChildDone

\* every await of fetchFiles is on a file-system call that returns
SpecWalk == WalkInit /\ [][WalkNext]_vars /\ WF_vars(WalkNext)

\* the entries reached from the target directory through directories only
Reachable(e) ==
    \A k \in 1..(Len(e.path) - 1) :
        \E d \in tree : d.path = SubSeq(e.path, 1, k) /\ d.kind = "dir"

RegularFiles == {e.path : e \in {x \in tree : x.kind = "file" /\ Reachable(x)}}

\* C12: on every finite tree below manifestDir the enumeration ends, and it
\* returns the regular files at every depth, each once, as paths relative to
\* manifestDir; no directory and no symbolic link is returned and no
\* symbolic link is read as a directory
C12_Enumeration ==
    /\ [](walk.pc = "done" =>
            /\ Range(walk.diskFiles) = RegularFiles
            /\ Len(walk.diskFiles) = Cardinality(RegularFiles))
    /\ [](\A q \in walk.read : q = <<>> \/ lstat(targetPath \o q) = "dir")
    /\ <>(walk.pc = "done")

\* a finished walk that found a file in a subdirectory and passed over a
\* link to a directory with a file in it
C12_Witness ==
    /\ walk.pc = "done"
    /\ targetPath = <<"vendor">>
    /\ \E f \in Range(walk.diskFiles) : Len(f) = 2
    /\ \E e \in tree : /\ e.kind = "link"
                        /\ \E x \in tree : /\ x.kind = "file"
                                            /\ x.path = e.path \o <<"a">>

====
